---- MODULE Spec2Model ----
(***************************************************************************)
(* Gold-table pipelines of utils/data_processing_gold_table.py:            *)
(*   process_labels_gold_table   (silver loans -> gold label store)        *)
(*   process_features_gold_table (silver financials / attributes /         *)
(*                                clickstream -> gold feature store)       *)
(* Storage is modelled as one partition per directory for the snapshot     *)
(* date of the invocation; a Spark DataFrame is a column set plus rows.    *)
(***************************************************************************)
EXTENDS Integers, Sequences, FiniteSets, TLC

VARIABLES
    snapshot_date,      \* the snapshot date of the invocation (and of the silver rows)
    silver_loans,       \* silver loan partition for the date: absent or a table
    dpd,                \* argument dpd of process_labels_gold_table
    mob,                \* argument mob of process_labels_gold_table
    gold_label,         \* gold label partition for the date
    label_result,       \* what the last process_labels_gold_table call gave its caller
    label_runs,         \* number of finished calls of process_labels_gold_table
    gold_label_first,   \* gold label partition as the first call left it
    gold_label_before,  \* gold label partition before the first call
    silver_fin,         \* silver financials partition for the date: absent or a table
    silver_attr,        \* silver attributes partition for the date
    silver_click,       \* silver clickstream partition for the date
    gold_feature,       \* gold feature partition for the date
    pc,                 \* position inside process_features_gold_table ("idle" outside)
    features_df,        \* local variable features_df
    final_cols,         \* local variable final_cols
    feature_result,     \* what the last process_features_gold_table call gave its caller
    feat_runs,          \* number of finished calls of process_features_gold_table
    gold_feature_first, \* gold feature partition as the first call left it
    gold_feature_at_call \* gold feature partition when the current/last call began

labelVars == <<snapshot_date, silver_loans, dpd, mob, gold_label, label_result,
               label_runs, gold_label_first, gold_label_before>>

featVars == <<silver_fin, silver_attr, silver_click, gold_feature, pc, features_df,
              final_cols, feature_result, feat_runs, gold_feature_first,
              gold_feature_at_call>>

vars == <<labelVars, featVars>>

----------------------------------------------------------------------------
(* Bounds of the model *)

MaxLoans == 2

MaxRuns == 2

NumCust == 2

----------------------------------------------------------------------------
(* SQL values *)

\* a nullable column value is NULL or Some(v)
NULL == <<>>

Some(v) == <<v>>

IsNull(x) == x = NULL

Val(x) == x[1]

Absent == [kind |-> "absent"]

NotRun == [kind |-> "not_run"]

\* the call ended with an exception (AnalysisException) propagated to the caller
Raised == [kind |-> "raised"]

\* the call printed an error and returned None
ReturnedNone == [kind |-> "none"]

\* a reader that yields an empty table for a missing path instead of raising
read_parquet_lenient(partition) ==
    IF partition = Absent THEN [kind |-> "table", cols |-> {}, rows |-> <<>>]
    ELSE partition

\* spark.read.parquet(filepath): raises when the path does not exist
read_parquet(partition) == IF partition = Absent THEN Raised ELSE partition

\* os.path.exists(path)
path_exists(partition) == partition # Absent

----------------------------------------------------------------------------
(* Calendar dates (DateType columns) *)

Date(y, m, d) == [y |-> y, m |-> m, d |-> d]

IsLeap(y) == (y % 4 = 0 /\ y % 100 # 0) \/ y % 400 = 0

DaysInMonth(y, m) ==
    IF m = 2 THEN (IF IsLeap(y) THEN 29 ELSE 28)
    ELSE IF m \in {4, 6, 9, 11} THEN 30 ELSE 31

RECURSIVE DaysBeforeMonth(_, _)
DaysBeforeMonth(y, m) ==
    IF m = 1 THEN 0 ELSE DaysBeforeMonth(y, m - 1) + DaysInMonth(y, m - 1)

LeapsBefore(y) == ((y - 1) \div 4) - ((y - 1) \div 100) + ((y - 1) \div 400)

\* day number of a date in the proleptic Gregorian calendar
DayNumber(dt) == 365 * (dt.y - 1) + LeapsBefore(dt.y) + DaysBeforeMonth(dt.y, dt.m) + dt.d

\* F.datediff(end, start): calendar days from start to end
datediff(end, start) == DayNumber(end) - DayNumber(start)

IsLastDayOfMonth(dt) == dt.d = DaysInMonth(dt.y, dt.m)

\* F.months_between(date1, date2) for DateType arguments, in units of 1/31 month:
\* whole months when both dates fall on the same day of month or both on the last
\* day of their month, else the month difference plus (day1 - day2) / 31.
months_between31(date1, date2) ==
    LET monthDiff == (date1.y * 12 + date1.m) - (date2.y * 12 + date2.m)
    IN  IF date1.d = date2.d \/ (IsLastDayOfMonth(date1) /\ IsLastDayOfMonth(date2))
        THEN monthDiff * 31
        ELSE monthDiff * 31 + (date1.d - date2.d)

\* a conversion that rounds down instead of toward zero
cast_floor31(v) == v \div 31

\* .cast("int") of a double given in units of 1/31: truncation toward zero
cast_int31(v) == IF v >= 0 THEN v \div 31 ELSE -((-v) \div 31)

----------------------------------------------------------------------------
(* process_labels_gold_table *)

\* withColumn("mob", months_between(snapshot_date, loan_start_date).cast("int"))
mob_of(row) == cast_int31(months_between31(row.snapshot_date, row.loan_start_date))

\* filter(col("mob") == mob)
mob_filter(row, m) == mob_of(row) = m

\* withColumn("dpd", when(overdue_amt > 0, datediff - installment_num * 30).otherwise(0))
dpd_of(row) ==
    IF ~IsNull(row.overdue_amt) /\ Val(row.overdue_amt) > 0
    THEN (IF IsNull(row.installment_num) THEN NULL
          ELSE Some(datediff(row.snapshot_date, row.loan_start_date)
                    - Val(row.installment_num) * 30))
    ELSE Some(0)

\* a label that needs the DPD to exceed the threshold
label_of_strict(d, threshold) == IF ~IsNull(d) /\ Val(d) > threshold THEN 1 ELSE 0

\* withColumn("label", when(col("dpd") >= dpd, 1).otherwise(0))
label_of(d, threshold) == IF ~IsNull(d) /\ Val(d) >= threshold THEN 1 ELSE 0

\* withColumn("label_def", lit(str(dpd) + 'dpd_' + str(mob) + 'mob'))
label_def_of(threshold, m) == <<threshold, "dpd_", m, "mob">>

\* select("loan_id", "Customer_ID", "label", "label_def", "snapshot_date")
label_row(row, threshold, m) ==
    [loan_id       |-> row.loan_id,
     Customer_ID   |-> row.Customer_ID,
     label         |-> label_of(dpd_of(row), threshold),
     label_def     |-> label_def_of(threshold, m),
     snapshot_date |-> row.snapshot_date]

RECURSIVE label_rows(_, _, _)
label_rows(rows, threshold, m) ==
    IF rows = <<>> THEN <<>>
    ELSE LET rest == label_rows(Tail(rows), threshold, m)
         IN  IF mob_filter(Head(rows), m)
             THEN <<label_row(Head(rows), threshold, m)>> \o rest
             ELSE rest

\* the DataFrame the function builds from the loaded partition
labels_df(loans, threshold, m) ==
    [kind |-> "table", rows |-> label_rows(loans.rows, threshold, m)]

\* df.write.mode("overwrite").parquet(filepath): the partition becomes the table
overwrite(partition, df) == df

\* one call of process_labels_gold_table
process_labels_gold_table ==
    /\ label_runs < MaxRuns
    /\ LET loaded == read_parquet(silver_loans)
       IN  IF loaded = Raised
           THEN \* the exception propagates: nothing below the read runs
                /\ label_result' = Raised
                /\ gold_label' = gold_label
           ELSE LET df == labels_df(loaded, dpd, mob)
                IN  /\ gold_label' = overwrite(gold_label, df)
                    /\ label_result' = df
    /\ label_runs' = label_runs + 1
    /\ gold_label_first' = IF label_runs = 0 THEN gold_label' ELSE gold_label_first
    /\ UNCHANGED <<snapshot_date, silver_loans, dpd, mob, gold_label_before>>
    /\ UNCHANGED featVars

----------------------------------------------------------------------------
(* Inputs of the label pipeline *)

SnapshotDates == {Date(2023, 7, 15), Date(2023, 2, 28)}

StartDates ==
    {Date(2022, 8, 28), Date(2022, 8, 30), Date(2022, 8, 31), Date(2023, 1, 15),
     Date(2023, 1, 16), Date(2023, 2, 28), Date(2023, 7, 15), Date(2023, 8, 14)}

\* (installment_num, overdue_amt) of a loan row
Installments == << <<Some(6), Some(50)>>, <<Some(5), Some(50)>>, <<Some(6), Some(0)>> >>

\* loan i's pair when the table starts the list at position shift + 1
InstallmentOf(i, shift) == Installments[((i + shift) % Len(Installments)) + 1]

DpdArgs == {1, 30}

MobArgs == {0, 6}

LoanRow(i, snap, start, inst) ==
    [loan_id           |-> i,
     Customer_ID       |-> i,
     loan_start_date   |-> start,
     snapshot_date     |-> snap,
     installment_num   |-> inst[1],
     due_amt           |-> 100,
     overdue_amt       |-> inst[2]]

LoanTables(snap) ==
    UNION {
        { [kind |-> "table",
           rows |-> [i \in 1..n |-> LoanRow(i, snap, starts[i], InstallmentOf(i, shift))]] :
             starts \in [1..n -> StartDates], shift \in 0..(Len(Installments) - 1) }
        : n \in 0..MaxLoans }

\* a gold label partition left by some earlier invocation
OldLabels(snap) ==
    [kind |-> "table",
     rows |-> << [loan_id |-> 0, Customer_ID |-> 0, label |-> 1,
                  label_def |-> label_def_of(90, 3), snapshot_date |-> snap] >>]

InitLabels ==
    /\ snapshot_date \in SnapshotDates
    /\ silver_loans \in {Absent} \cup LoanTables(snapshot_date)
    /\ dpd \in DpdArgs
    /\ mob \in MobArgs
    /\ gold_label \in {Absent, OldLabels(snapshot_date)}
    /\ gold_label_before = gold_label
    /\ gold_label_first = Absent
    /\ label_result = NotRun
    /\ label_runs = 0
    /\ silver_fin = Absent
    /\ silver_attr = Absent
    /\ silver_click = Absent
    /\ gold_feature = Absent
    /\ pc = "idle"
    /\ features_df = Absent
    /\ final_cols = {}
    /\ feature_result = NotRun
    /\ feat_runs = 0
    /\ gold_feature_first = Absent
    /\ gold_feature_at_call = Absent

NextLabels == process_labels_gold_table

SpecLabels == InitLabels /\ [][NextLabels]_vars

----------------------------------------------------------------------------
(* Column names as Python strings *)

\* the characters of each column name that occurs in the modelled schemas
Chars(c) ==
    CASE c = "Customer_ID" -> <<"C", "u", "s", "t", "o", "m", "e", "r", "_", "I", "D">>
      [] c = "snapshot_date" -> <<"s", "n", "a", "p", "s", "h", "o", "t", "_", "d", "a", "t", "e">>
      [] c = "Annual_Income" -> <<"A", "n", "n", "u", "a", "l", "_", "I", "n", "c", "o", "m", "e">>
      [] c = "Monthly_Inhand_Salary" -> <<"M", "o", "n", "t", "h", "l", "y", "_", "I", "n", "h", "a", "n", "d", "_", "S", "a", "l", "a", "r", "y">>
      [] c = "Outstanding_Debt" -> <<"O", "u", "t", "s", "t", "a", "n", "d", "i", "n", "g", "_", "D", "e", "b", "t">>
      [] c = "Credit_Utilization_Ratio" -> <<"C", "r", "e", "d", "i", "t", "_", "U", "t", "i", "l", "i", "z", "a", "t", "i", "o", "n", "_", "R", "a", "t", "i", "o">>
      [] c = "Total_EMI_per_month" -> <<"T", "o", "t", "a", "l", "_", "E", "M", "I", "_", "p", "e", "r", "_", "m", "o", "n", "t", "h">>
      [] c = "Num_of_Delayed_Payment" -> <<"N", "u", "m", "_", "o", "f", "_", "D", "e", "l", "a", "y", "e", "d", "_", "P", "a", "y", "m", "e", "n", "t">>
      [] c = "Delay_from_due_date" -> <<"D", "e", "l", "a", "y", "_", "f", "r", "o", "m", "_", "d", "u", "e", "_", "d", "a", "t", "e">>
      [] c = "Credit_Mix" -> <<"C", "r", "e", "d", "i", "t", "_", "M", "i", "x">>
      [] c = "Payment_Behaviour" -> <<"P", "a", "y", "m", "e", "n", "t", "_", "B", "e", "h", "a", "v", "i", "o", "u", "r">>
      [] c = "label" -> <<"l", "a", "b", "e", "l">>
      [] c = "Name" -> <<"N", "a", "m", "e">>
      [] c = "Age" -> <<"A", "g", "e">>
      [] c = "SSN" -> <<"S", "S", "N">>
      [] c = "Occupation" -> <<"O", "c", "c", "u", "p", "a", "t", "i", "o", "n">>
      [] c = "Target_flag" -> <<"T", "a", "r", "g", "e", "t", "_", "f", "l", "a", "g">>
      [] c = "fe_1" -> <<"f", "e", "_", "1">>
      [] c = "fe_2" -> <<"f", "e", "_", "2">>
      [] c = "LABEL_click" -> <<"L", "A", "B", "E", "L", "_", "c", "l", "i", "c", "k">>
      [] c = "Occupation_encoded" -> <<"O", "c", "c", "u", "p", "a", "t", "i", "o", "n", "_", "e", "n", "c", "o", "d", "e", "d">>
      [] c = "Credit_Mix_encoded" -> <<"C", "r", "e", "d", "i", "t", "_", "M", "i", "x", "_", "e", "n", "c", "o", "d", "e", "d">>
      [] c = "Debt_to_Income_Ratio" -> <<"D", "e", "b", "t", "_", "t", "o", "_", "I", "n", "c", "o", "m", "e", "_", "R", "a", "t", "i", "o">>
      [] c = "EMI_Burden_Ratio" -> <<"E", "M", "I", "_", "B", "u", "r", "d", "e", "n", "_", "R", "a", "t", "i", "o">>
      [] c = "Credit_Utilization_Trend" -> <<"C", "r", "e", "d", "i", "t", "_", "U", "t", "i", "l", "i", "z", "a", "t", "i", "o", "n", "_", "T", "r", "e", "n", "d">>
      [] c = "Delinquency_Score" -> <<"D", "e", "l", "i", "n", "q", "u", "e", "n", "c", "y", "_", "S", "c", "o", "r", "e">>

LowerOf ==
    [ch \in {"A", "B", "C", "D", "E", "F", "G", "H", "I", "J", "K", "L", "M", "N", "O", "P", "Q", "R", "S", "T", "U", "V", "W", "X", "Y", "Z"} |->
        CASE ch = "A" -> "a"
          [] ch = "B" -> "b"
          [] ch = "C" -> "c"
          [] ch = "D" -> "d"
          [] ch = "E" -> "e"
          [] ch = "F" -> "f"
          [] ch = "G" -> "g"
          [] ch = "H" -> "h"
          [] ch = "I" -> "i"
          [] ch = "J" -> "j"
          [] ch = "K" -> "k"
          [] ch = "L" -> "l"
          [] ch = "M" -> "m"
          [] ch = "N" -> "n"
          [] ch = "O" -> "o"
          [] ch = "P" -> "p"
          [] ch = "Q" -> "q"
          [] ch = "R" -> "r"
          [] ch = "S" -> "s"
          [] ch = "T" -> "t"
          [] ch = "U" -> "u"
          [] ch = "V" -> "v"
          [] ch = "W" -> "w"
          [] ch = "X" -> "x"
          [] ch = "Y" -> "y"
          [] ch = "Z" -> "z"]

\* str.lower(), character by character
lower(chars) == [i \in 1..Len(chars) |->
                    IF chars[i] \in DOMAIN LowerOf THEN LowerOf[chars[i]] ELSE chars[i]]

\* str.startswith(prefix)
startswith(chars, prefix) ==
    /\ Len(chars) >= Len(prefix)
    /\ \A i \in 1..Len(prefix) : chars[i] = prefix[i]

\* c.lower().startswith(('label', 'target'))
is_label_or_target(c) ==
    \/ startswith(lower(Chars(c)), <<"l", "a", "b", "e", "l">>)
    \/ startswith(lower(Chars(c)), <<"t", "a", "r", "g", "e", "t">>)

----------------------------------------------------------------------------
(* Column lists of process_features_gold_table *)

cols_to_remove ==
    {"label", "target", "Name", "SSN", "Occupation", "Payment_of_Min_Amount",
     "Payment_Behaviour", "fe_sum", "fe_1", "fe_2", "fe_3", "fe_4", "fe_5", "fe_6",
     "fe_7", "fe_8", "fe_9", "fe_10", "fe_11", "fe_12", "fe_13", "fe_14", "fe_15",
     "fe_16", "fe_17", "fe_18", "fe_19", "fe_20", "Changed_Credit_Limit",
     "Credit_History_Age", "Amount_invested_monthly", "Type_of_Loan"}

key_features ==
    {"Annual_Income", "Monthly_Inhand_Salary", "Num_Bank_Accounts", "Num_Credit_Card",
     "Interest_Rate", "Num_of_Loan", "Outstanding_Debt", "Credit_Utilization_Ratio",
     "Total_EMI_per_month", "Credit_Mix_encoded"}

numeric_cols ==
    {"Monthly_Balance", "Annual_Income", "Monthly_Inhand_Salary", "Outstanding_Debt",
     "Num_Credit_Inquiries", "Credit_Utilization_Ratio", "Total_EMI_per_month",
     "Num_Bank_Accounts", "Num_Credit_Card", "Interest_Rate", "Num_of_Loan",
     "Delay_from_due_date", "Num_of_Delayed_Payment"}

essential_features ==
    {"Annual_Income", "Outstanding_Debt", "Credit_Utilization_Ratio",
     "Total_EMI_per_month", "Num_of_Delayed_Payment", "Debt_to_Income_Ratio",
     "EMI_Burden_Ratio", "Credit_Mix_encoded"}

join_keys == {"Customer_ID", "snapshot_date"}

----------------------------------------------------------------------------
(* DataFrames: a column set and one row per Customer_ID *)

Table(cols, rows) == [kind |-> "table", cols |-> cols, rows |-> rows]

\* df.count()
count(df) == Cardinality(DOMAIN df.rows)

\* an emptiness check that never fires
is_empty_never(df) == FALSE

\* features_df.count() == 0
is_empty(df) == count(df) = 0

\* the join with how="inner": only the customers both sides have
inner_join(a, b) ==
    Table(a.cols \cup b.cols,
          [c \in DOMAIN a.rows \cap DOMAIN b.rows |->
              [col \in a.cols \cup b.cols |->
                  IF col \in a.cols THEN a.rows[c][col] ELSE b.rows[c][col]]])

\* a.join(b, ["Customer_ID", "snapshot_date"], "left"): every row of a is kept, the
\* columns of b are null where b has no row for the customer
left_join(a, b) ==
    Table(a.cols \cup b.cols,
          [c \in DOMAIN a.rows |->
              [col \in a.cols \cup b.cols |->
                  IF col \in a.cols THEN a.rows[c][col]
                  ELSE IF c \in DOMAIN b.rows THEN b.rows[c][col]
                  ELSE NULL]])

\* reduce(lambda a, b: a.join(b, ..., "left"), feature_dfs), feature_dfs not empty
RECURSIVE reduce_join(_)
reduce_join(dfs) ==
    IF Len(dfs) = 1 THEN dfs[1]
    ELSE left_join(reduce_join(SubSeq(dfs, 1, Len(dfs) - 1)), dfs[Len(dfs)])

\* df.withColumn(name, column): values[c] is the column's value in customer c's row
withColumn(df, name, values) ==
    Table(df.cols \cup {name},
          [c \in DOMAIN df.rows |->
              [col \in df.cols \cup {name} |->
                  IF col = name THEN values[c] ELSE df.rows[c][col]]])

\* col(name) can be resolved for every name in names
resolves(df, names) == names \subseteq df.cols

\* df.select(*cols), cols resolved
select(df, cols) ==
    Table(cols, [c \in DOMAIN df.rows |-> [col \in cols |-> df.rows[c][col]]])

RECURSIVE gcd(_, _)
gcd(a, b) == IF b = 0 THEN a ELSE gcd(b, a % b)

abs(a) == IF a < 0 THEN -a ELSE a

\* the quotient a / b of two non-null numbers as a fraction in lowest terms
quotient(a, b) ==
    LET g == gcd(abs(a), abs(b))
        sgn == IF b < 0 THEN -1 ELSE 1
    IN  <<(sgn * a) \div g, (sgn * b) \div g>>

\* col(x) / col(y): null when an operand is null or the divisor is zero
divide(x, y) ==
    IF IsNull(x) \/ IsNull(y) THEN NULL
    ELSE IF Val(y) = 0 THEN NULL
    ELSE Some(quotient(Val(x), Val(y)))

\* col(x) > 0 as a when-condition: a null comparison is not true
gt_zero(x) == ~IsNull(x) /\ Val(x) > 0

\* the ratio with .otherwise(0): a default zero where the income is not positive
Debt_to_Income_Ratio_zero_default(row) ==
    IF gt_zero(row["Annual_Income"])
    THEN divide(row["Outstanding_Debt"], row["Annual_Income"])
    ELSE Some(<<0, 1>>)

\* F.when(col("Annual_Income") > 0, col("Outstanding_Debt") / col("Annual_Income"))
\*  .otherwise(None)
Debt_to_Income_Ratio(row) ==
    IF gt_zero(row["Annual_Income"])
    THEN divide(row["Outstanding_Debt"], row["Annual_Income"])
    ELSE NULL

\* F.when(col("Monthly_Inhand_Salary") > 0,
\*        col("Total_EMI_per_month") / col("Monthly_Inhand_Salary")).otherwise(None)
EMI_Burden_Ratio(row) ==
    IF gt_zero(row["Monthly_Inhand_Salary"])
    THEN divide(row["Total_EMI_per_month"], row["Monthly_Inhand_Salary"])
    ELSE NULL

\* (col("Credit_Utilization_Ratio") - 0.3) / 0.7
Credit_Utilization_Trend(row) ==
    IF IsNull(row["Credit_Utilization_Ratio"]) THEN NULL
    ELSE Some(quotient(10 * Val(row["Credit_Utilization_Ratio"]) - 3, 7))

\* col("Num_of_Delayed_Payment") * 0.4 + col("Delay_from_due_date") * 0.6
Delinquency_Score(row) ==
    IF IsNull(row["Num_of_Delayed_Payment"]) \/ IsNull(row["Delay_from_due_date"])
    THEN NULL
    ELSE Some(quotient(4 * Val(row["Num_of_Delayed_Payment"])
                       + 6 * Val(row["Delay_from_due_date"]), 10))

\* F.when(col("Credit_Mix") == "Good", 2).when(col("Credit_Mix") == "Standard", 1)
\*  .otherwise(0)
Credit_Mix_encoded(row) ==
    IF row["Credit_Mix"] = Some("Good") THEN Some(2)
    ELSE IF row["Credit_Mix"] = Some("Standard") THEN Some(1)
    ELSE Some(0)

\* features_df.withColumn("Debt_to_Income_Ratio", ...)
with_Debt_to_Income_Ratio(df) ==
    withColumn(df, "Debt_to_Income_Ratio",
               [c \in DOMAIN df.rows |-> Debt_to_Income_Ratio(df.rows[c])])

\* features_df.withColumn("EMI_Burden_Ratio", ...)
with_EMI_Burden_Ratio(df) ==
    withColumn(df, "EMI_Burden_Ratio",
               [c \in DOMAIN df.rows |-> EMI_Burden_Ratio(df.rows[c])])

\* features_df.withColumn("Credit_Utilization_Trend", ...)
with_Credit_Utilization_Trend(df) ==
    withColumn(df, "Credit_Utilization_Trend",
               [c \in DOMAIN df.rows |-> Credit_Utilization_Trend(df.rows[c])])

\* features_df.withColumn("Delinquency_Score", ...)
with_Delinquency_Score(df) ==
    withColumn(df, "Delinquency_Score",
               [c \in DOMAIN df.rows |-> Delinquency_Score(df.rows[c])])

\* features_df.withColumn("Credit_Mix_encoded", ...)
with_Credit_Mix_encoded(df) ==
    withColumn(df, "Credit_Mix_encoded",
               [c \in DOMAIN df.rows |-> Credit_Mix_encoded(df.rows[c])])

\* F.when(col(c).isNotNull(), col(c)).otherwise(F.lit(None).cast(FloatType()))
null_passthrough(v) == IF ~IsNull(v) THEN v ELSE NULL

\* the loop over numeric_cols: every numeric column present is passed through
numeric_null_handling(df) ==
    Table(df.cols,
          [c \in DOMAIN df.rows |->
              [col \in df.cols |->
                  IF col \in numeric_cols THEN null_passthrough(df.rows[c][col])
                  ELSE df.rows[c][col]]])

\* features_df.select("Occupation").distinct().na.drop(): the distinct non-null values
occupations(df) ==
    {Val(df.rows[c]["Occupation"]) :
        c \in {k \in DOMAIN df.rows : ~IsNull(df.rows[k]["Occupation"])}}

\* .rdd.zipWithIndex().collectAsMap(): the values numbered 0..n-1 in the order the
\* RDD yields them, which Spark does not fix for a shuffled RDD
occupation_dicts(df) ==
    LET occs == occupations(df)
    IN  {d \in [occs -> 0..(Cardinality(occs) - 1)] :
            \A a, b \in occs : a # b => d[a] # d[b]}

\* encode_occupation: bc_occupation_dict.value.get(occupation)
encode_occupation(dict, occupation) ==
    IF IsNull(occupation) THEN NULL ELSE Some(dict[Val(occupation)])

\* the list feature_dfs of the sources that exist, in the order given
feature_dfs(sources) ==
    LET keep(p) == IF path_exists(p) THEN <<read_parquet(p)>> ELSE <<>>
    IN  IF sources = <<>> THEN <<>>
        ELSE IF Len(sources) = 1 THEN keep(sources[1])
        ELSE IF Len(sources) = 2 THEN keep(sources[1]) \o keep(sources[2])
        ELSE keep(sources[1]) \o keep(sources[2]) \o keep(sources[3])

\* final_cols of line 155: not a label/target name and not in cols_to_remove
deny_filter(cols) == {c \in cols : ~is_label_or_target(c) /\ c \notin cols_to_remove}

\* final_cols of line 181: key features and the identity columns
key_filter(cols) == {c \in cols : c \in key_features \/ c \in join_keys}

\* the columns the first pass's derived features read (lines 186-209)
derived_inputs_1 ==
    {"Annual_Income", "Outstanding_Debt", "Monthly_Inhand_Salary", "Total_EMI_per_month",
     "Credit_Utilization_Ratio", "Num_of_Delayed_Payment", "Delay_from_due_date"}

\* the columns the second pass's derived features read (lines 248-267)
derived_inputs_2 ==
    {"Annual_Income", "Outstanding_Debt", "Monthly_Inhand_Salary", "Total_EMI_per_month",
     "Credit_Mix"}

----------------------------------------------------------------------------
(* process_features_gold_table, statement by statement *)

\* return / raise: the call ends and its locals are gone
EndCall(result) ==
    /\ pc' = "idle"
    /\ feature_result' = result
    /\ feat_runs' = feat_runs + 1
    /\ gold_feature_first' = IF feat_runs = 0 THEN gold_feature' ELSE gold_feature_first
    /\ features_df' = Absent
    /\ final_cols' = {}

\* what no statement of the function changes: the silver inputs and the label pipeline
Inputs == <<silver_fin, silver_attr, silver_click, labelVars>>

\* lines 94-127: load the sources that exist, join them, reject an empty join
LoadAndJoin ==
    /\ pc = "idle"
    /\ feat_runs < MaxRuns
    /\ gold_feature_at_call' = gold_feature
    /\ gold_feature' = gold_feature
    /\ LET dfs == feature_dfs(<<silver_fin, silver_attr, silver_click>>)
       IN  IF dfs = <<>>
           THEN EndCall(ReturnedNone)
           ELSE IF is_empty(reduce_join(dfs))
                THEN EndCall(ReturnedNone)
                ELSE /\ features_df' = reduce_join(dfs)
                     /\ pc' = "encode"
                     /\ UNCHANGED <<final_cols, feature_result, feat_runs,
                                    gold_feature_first>>
    /\ UNCHANGED Inputs

\* lines 129-147: Occupation_encoded from the per-run occupation dictionary
EncodeOccupation ==
    /\ pc = "encode"
    /\ IF "Occupation" \in features_df.cols
       THEN \E dict \in occupation_dicts(features_df) :
               features_df' = withColumn(features_df, "Occupation_encoded",
                                  [c \in DOMAIN features_df.rows |->
                                      encode_occupation(dict,
                                          features_df.rows[c]["Occupation"])])
       ELSE features_df' = features_df
    /\ pc' = "save"
    /\ UNCHANGED <<gold_feature, final_cols, feature_result, feat_runs,
                   gold_feature_first, gold_feature_at_call>>
    /\ UNCHANGED Inputs

\* lines 149-152: features_df.write.mode("overwrite").parquet(gold_path)
SaveJoined ==
    /\ pc = "save"
    /\ gold_feature' = overwrite(gold_feature, features_df)
    /\ pc' = "filter"
    /\ UNCHANGED <<features_df, final_cols, feature_result, feat_runs,
                   gold_feature_first, gold_feature_at_call>>
    /\ UNCHANGED Inputs

\* lines 154-183: deny-list selection, numeric null handling, Credit_Mix encoding,
\* and the key-feature column list
FilterColumns ==
    /\ pc = "filter"
    /\ LET selected == select(features_df, deny_filter(features_df.cols))
           handled  == numeric_null_handling(selected)
           encoded  == IF "Credit_Mix" \in handled.cols
                       THEN with_Credit_Mix_encoded(handled)
                       ELSE handled
       IN  /\ features_df' = encoded
           /\ final_cols' = key_filter(encoded.cols)
    /\ pc' = "derive"
    /\ UNCHANGED <<gold_feature, feature_result, feat_runs, gold_feature_first,
                   gold_feature_at_call>>
    /\ UNCHANGED Inputs

\* lines 185-231: the first pass's derived features and select(*final_cols); a column
\* a derived feature reads and the table lacks raises AnalysisException
DeriveFirstPass ==
    /\ pc = "derive"
    /\ gold_feature' = gold_feature
    /\ IF ~resolves(features_df, derived_inputs_1)
       THEN EndCall(Raised)
       ELSE /\ features_df' =
                 select(with_Delinquency_Score(with_Credit_Utilization_Trend(
                            with_EMI_Burden_Ratio(with_Debt_to_Income_Ratio(features_df)))),
                        final_cols)
            /\ pc' = "reload"
            /\ UNCHANGED <<final_cols, feature_result, feat_runs, gold_feature_first>>
    /\ UNCHANGED gold_feature_at_call
    /\ UNCHANGED Inputs

\* lines 233-245: load financials and attributes again and join them
ReloadAndJoin ==
    /\ pc = "reload"
    /\ gold_feature' = gold_feature
    /\ LET dfs == feature_dfs(<<silver_fin, silver_attr>>)
       IN  IF dfs = <<>>
           THEN EndCall(ReturnedNone)
           ELSE /\ features_df' = reduce_join(dfs)
                /\ pc' = "derive2"
                /\ UNCHANGED <<final_cols, feature_result, feat_runs, gold_feature_first>>
    /\ UNCHANGED gold_feature_at_call
    /\ UNCHANGED Inputs

\* lines 247-272: derived features, Credit_Mix encoding, select of the identity
\* columns and essential_features
DeriveAndSelect ==
    /\ pc = "derive2"
    /\ gold_feature' = gold_feature
    /\ IF ~resolves(features_df, derived_inputs_2)
       THEN EndCall(Raised)
       ELSE LET derived ==
                    with_Credit_Mix_encoded(with_EMI_Burden_Ratio(
                        with_Debt_to_Income_Ratio(features_df)))
            IN  IF ~resolves(derived, join_keys \cup essential_features)
                THEN EndCall(Raised)
                ELSE /\ features_df' = select(derived, join_keys \cup essential_features)
                     /\ pc' = "save2"
                     /\ UNCHANGED <<final_cols, feature_result, feat_runs,
                                    gold_feature_first>>
    /\ UNCHANGED gold_feature_at_call
    /\ UNCHANGED Inputs

\* lines 274-277: write the gold feature partition and return the table
SaveAndReturn ==
    /\ pc = "save2"
    /\ gold_feature' = overwrite(gold_feature, features_df)
    /\ EndCall(features_df)
    /\ UNCHANGED gold_feature_at_call
    /\ UNCHANGED Inputs

----------------------------------------------------------------------------
(* Inputs of the feature pipeline *)

Customers == 1..NumCust

\* (Annual_Income, Outstanding_Debt) pairs of financials rows
Incomes == << <<NULL, Some(3)>>, <<Some(0), Some(3)>>, <<Some(-2), Some(3)>>,
              <<Some(2), Some(3)>>, <<Some(4), Some(6)>>, <<Some(2), NULL>> >>

\* customer c's pair when the table starts the list at position shift + 1
IncomeOf(c, shift) == Incomes[((c + shift) % Len(Incomes)) + 1]

\* customer c's Occupation in the attributes table
OccupationOf(c) ==
    IF c % 3 = 0 THEN NULL
    ELSE IF c % 2 = 1 THEN Some("Engineer") ELSE Some("Doctor")

\* the columns of the silver financials table under a schema choice
FinCols(schema) ==
    join_keys \cup
    {"Annual_Income", "Monthly_Inhand_Salary", "Outstanding_Debt",
     "Credit_Utilization_Ratio", "Total_EMI_per_month", "Num_of_Delayed_Payment",
     "Delay_from_due_date", "Payment_Behaviour"}
    \cup (IF schema = "financials_no_credit_mix" THEN {} ELSE {"Credit_Mix"})
    \cup (IF schema = "financials_label" THEN {"label"} ELSE {})

\* the columns of the silver attributes table
AttrCols(schema) ==
    join_keys \cup {"Name", "Age", "SSN", "Occupation"}
    \cup (IF schema = "attributes_target" THEN {"Target_flag"} ELSE {})

\* the columns of the silver clickstream table
ClickCols(schema) ==
    join_keys \cup {"fe_1", "fe_2"}
    \cup (IF schema = "clickstream_label" THEN {"LABEL_click"} ELSE {})
    \cup (IF schema = "clickstream_wide" THEN derived_inputs_1 ELSE {})

\* the value of a column that the inputs do not vary
FixedValue(col, c, snap) ==
    CASE col = "Customer_ID" -> Some(c)
      [] col = "snapshot_date" -> Some(snap)
      [] col = "Monthly_Inhand_Salary" -> Some(4)
      [] col = "Total_EMI_per_month" -> Some(1)
      [] col = "Credit_Utilization_Ratio" -> Some(1)
      [] col = "Num_of_Delayed_Payment" -> Some(2)
      [] col = "Delay_from_due_date" -> Some(3)
      [] col = "Credit_Mix" -> (IF c = 1 THEN Some("Good")
                                ELSE IF c = 2 THEN Some("Excellent")
                                ELSE Some("Standard"))
      [] col \in {"Payment_Behaviour", "Name", "SSN"} -> Some("text")
      [] OTHER -> Some(1)

FinTables(snap, schema) ==
    { Table(FinCols(schema),
            [c \in custs |->
                [col \in FinCols(schema) |->
                    IF col = "Annual_Income" THEN IncomeOf(c, shift)[1]
                    ELSE IF col = "Outstanding_Debt" THEN IncomeOf(c, shift)[2]
                    ELSE FixedValue(col, c, snap)]]) :
        custs \in SUBSET Customers, shift \in 0..(Len(Incomes) - 1) }

AttrTables(snap, schema) ==
    { Table(AttrCols(schema),
            [c \in custs |->
                [col \in AttrCols(schema) |->
                    IF col = "Occupation" THEN OccupationOf(c)
                    ELSE FixedValue(col, c, snap)]]) :
        custs \in SUBSET Customers }

ClickTables(snap, schema) ==
    { Table(ClickCols(schema),
            [c \in custs |-> [col \in ClickCols(schema) |-> FixedValue(col, c, snap)]]) :
        custs \in {{}, Customers} }

\* a gold feature partition left by some earlier invocation
OldFeatures(snap) ==
    Table(join_keys, [c \in {0} |-> [col \in join_keys |-> FixedValue(col, c, snap)]])

\* the schema choices: the plain schemas, a label/target column in one source, a
\* financials table without Credit_Mix, a clickstream table that also carries the
\* numeric columns (then there is no financials table, so no name occurs twice)
Schemas == {"plain", "financials_label", "attributes_target", "clickstream_label",
            "financials_no_credit_mix", "clickstream_wide"}

\* the partitions a source can be under a schema choice
FinChoices(snap, schema) ==
    IF schema = "clickstream_wide" THEN {Absent}
    ELSE (IF schema \in {"financials_label", "financials_no_credit_mix"}
          THEN {} ELSE {Absent}) \cup FinTables(snap, schema)

AttrChoices(snap, schema) ==
    (IF schema = "attributes_target" THEN {} ELSE {Absent}) \cup AttrTables(snap, schema)

ClickChoices(snap, schema) ==
    (IF schema \in {"clickstream_label", "clickstream_wide"} THEN {} ELSE {Absent})
    \cup ClickTables(snap, schema)

InitFeatures ==
    /\ snapshot_date = Date(2023, 7, 15)
    /\ \E schema \in Schemas :
         /\ silver_fin \in FinChoices(snapshot_date, schema)
         /\ silver_attr \in AttrChoices(snapshot_date, schema)
         /\ silver_click \in ClickChoices(snapshot_date, schema)
    /\ gold_feature \in {Absent, OldFeatures(snapshot_date)}
    /\ gold_feature_at_call = gold_feature
    /\ gold_feature_first = Absent
    /\ pc = "idle"
    /\ features_df = Absent
    /\ final_cols = {}
    /\ feature_result = NotRun
    /\ feat_runs = 0
    /\ silver_loans = Absent
    /\ dpd = 30
    /\ mob = 6
    /\ gold_label = Absent
    /\ gold_label_before = Absent
    /\ gold_label_first = Absent
    /\ label_result = NotRun
    /\ label_runs = 0

NextFeatures ==
    \/ LoadAndJoin
    \/ EncodeOccupation
    \/ SaveJoined
    \/ FilterColumns
    \/ DeriveFirstPass
    \/ ReloadAndJoin
    \/ DeriveAndSelect
    \/ SaveAndReturn

SpecFeatures == InitFeatures /\ [][NextFeatures]_vars

----------------------------------------------------------------------------
(* Properties of process_labels_gold_table *)

LabelsEnded == label_runs > 0

\* the loan row an output row was computed from
LoanOf(out) == silver_loans.rows[out.loan_id]

\* the label tables a finished call produced: the one returned and the one stored
LabelOutputs ==
    IF LabelsEnded /\ label_result.kind = "table" THEN {label_result, gold_label} ELSE {}

\* DPD as the specification derives it: days from loan_start_date to snapshot_date
\* minus thirty days per installment when an amount is overdue, else zero
SpecDPD(loan) ==
    IF Val(loan.overdue_amt) > 0
    THEN (DayNumber(loan.snapshot_date) - DayNumber(loan.loan_start_date))
         - Val(loan.installment_num) * 30
    ELSE 0

ScenarioLoan(loan) ==
    /\ loan.loan_start_date = Date(2023, 1, 15)
    /\ loan.snapshot_date = Date(2023, 7, 15)
    /\ loan.installment_num = Some(6)
    /\ loan.overdue_amt = Some(50)

\* C2: every row of the label output has label 0 or 1, and label 1 exactly when the
\* loan's derived DPD is at least the dpd argument; the loan started 2023-01-15 with
\* snapshot 2023-07-15, six installments and an overdue amount has DPD 1 and, with
\* threshold 30, label 0.
C2_LabelIffDpdAtLeastThreshold ==
    \A t \in LabelOutputs :
        \A k \in 1..Len(t.rows) :
            LET out == t.rows[k]
                loan == LoanOf(out)
            IN  /\ out.label \in {0, 1}
                /\ out.label = 1 <=> SpecDPD(loan) >= dpd
                /\ ScenarioLoan(loan) => /\ SpecDPD(loan) = 1
                                         /\ dpd = 30 => out.label = 0

C2_Witness ==
    /\ LabelsEnded
    /\ label_result.kind = "table"
    /\ dpd = 30
    /\ \E k \in 1..Len(label_result.rows) :
          /\ ScenarioLoan(LoanOf(label_result.rows[k]))
          /\ label_result.rows[k].label = 0
    /\ \E k \in 1..Len(label_result.rows) :
          /\ SpecDPD(LoanOf(label_result.rows[k])) >= 30
          /\ label_result.rows[k].label = 1

\* whole calendar months from date a to a later date b: the month difference, less
\* one when b's day of month has not yet reached a's (two month ends count as reached)
FullMonths(a, b) ==
    LET diff == (b.y * 12 + b.m) - (a.y * 12 + a.m)
        reached == b.d >= a.d \/ (IsLastDayOfMonth(a) /\ IsLastDayOfMonth(b))
    IN  IF reached THEN diff ELSE diff - 1

\* MOB as the specification defines it: whole months between loan_start_date and
\* snapshot_date, the fraction dropped toward zero whichever date is the later
SpecMOB(loan) ==
    IF DayNumber(loan.loan_start_date) <= DayNumber(loan.snapshot_date)
    THEN FullMonths(loan.loan_start_date, loan.snapshot_date)
    ELSE -FullMonths(loan.snapshot_date, loan.loan_start_date)

OutputLoanIds(t) == {t.rows[k].loan_id : k \in 1..Len(t.rows)}

\* C3: a loan of the silver partition is in the label output exactly when its MOB
\* (whole months between start and snapshot, truncated toward zero) equals the mob
\* argument, once each; a loan started on the snapshot date has MOB 0.
C3_OutputIsLoansAtTargetMob ==
    \A t \in LabelOutputs :
        LET atMob == {i \in DOMAIN silver_loans.rows : SpecMOB(silver_loans.rows[i]) = mob}
        IN  /\ OutputLoanIds(t) = atMob
            /\ Len(t.rows) = Cardinality(atMob)
            /\ \A i \in DOMAIN silver_loans.rows :
                  silver_loans.rows[i].loan_start_date = silver_loans.rows[i].snapshot_date
                  => (i \in OutputLoanIds(t) <=> mob = 0)

C3_Witness ==
    /\ LabelsEnded
    /\ label_result.kind = "table"
    /\ mob = 0
    /\ \E i \in DOMAIN silver_loans.rows :
          /\ \/ silver_loans.rows[i].loan_start_date = snapshot_date
             \/ DayNumber(silver_loans.rows[i].loan_start_date) > DayNumber(snapshot_date)
          /\ i \in OutputLoanIds(label_result)
    /\ \E i \in DOMAIN silver_loans.rows :
          /\ months_between31(snapshot_date, silver_loans.rows[i].loan_start_date) % 31 # 0
          /\ i \notin OutputLoanIds(label_result)

\* C6: when the silver loan partition is missing, the call ends with the read's
\* exception, returns nothing and leaves the gold label partition as it was.
C6_MissingLoansRaisesAndWritesNothing ==
    (LabelsEnded /\ silver_loans = Absent)
        => /\ label_result = Raised
           /\ gold_label = gold_label_before

C6_Witness ==
    /\ LabelsEnded
    /\ silver_loans = Absent
    /\ label_result = Raised
    /\ gold_label = OldLabels(snapshot_date)

----------------------------------------------------------------------------
(* Properties of process_features_gold_table *)

FeaturesEnded == pc = "idle" /\ feat_runs > 0

ReturnedTable == FeaturesEnded /\ feature_result.kind = "table"

Sources == <<silver_fin, silver_attr, silver_click>>

PresentSources == {i \in 1..3 : Sources[i] # Absent}

CustomersOf(partition) == IF partition = Absent THEN {} ELSE DOMAIN partition.rows

HasLabelColumn(t) == t.kind = "table" /\ \E c \in t.cols : is_label_or_target(c)

\* the first source in join order has no rows, so the left-join chain has none
JoinedEmpty ==
    /\ PresentSources # {}
    /\ \A i \in PresentSources :
          (\A j \in PresentSources : i <= j) => CustomersOf(Sources[i]) = {}

\* C1: once the call has ended, neither the table it returned nor the gold feature
\* partition holds a column whose name starts with label or target in any case.
C1_NoLabelColumnReturnedOrStored ==
    FeaturesEnded => /\ ~HasLabelColumn(feature_result)
                     /\ ~HasLabelColumn(gold_feature)

\* C4: whenever some source exists (and the join has rows), the call skips the
\* absent sources and completes: it returns a table and the gold partition holds it.
C4_CompletesWithAnySourcePresent ==
    (FeaturesEnded /\ PresentSources # {} /\ ~JoinedEmpty)
        => /\ feature_result.kind = "table"
           /\ gold_feature = feature_result

\* C5: when no source exists, or the joined sources have no rows, the call returns
\* the error result and the gold feature partition is as it was when the call began.
C5_NoSourceOrEmptyJoinAbortsWithoutWriting ==
    (FeaturesEnded /\ (PresentSources = {} \/ JoinedEmpty))
        => /\ feature_result = ReturnedNone
           /\ gold_feature = gold_feature_at_call

C5_Witness ==
    /\ FeaturesEnded
    /\ silver_fin # Absent
    /\ CustomersOf(silver_fin) = {}
    /\ CustomersOf(silver_attr) # {}
    /\ feature_result = ReturnedNone
    /\ gold_feature = OldFeatures(snapshot_date)

\* C7: a second call with unchanged inputs leaves the gold partition with the content
\* the first call left.
C7_SecondRunLeavesSameContent ==
    (pc = "idle" /\ feat_runs >= 2) => gold_feature = gold_feature_first

\* C8 as stated: the returned table has a row for exactly the customers that occur in
\* at least one present source.
C8_RowsAreCustomersOfAnySource ==
    ReturnedTable
        => DOMAIN feature_result.rows =
              CustomersOf(silver_fin) \cup CustomersOf(silver_attr)
                  \cup CustomersOf(silver_click)

\* the left-most source of the final join: financials, else attributes
LeadingSource == IF silver_fin # Absent THEN silver_fin ELSE silver_attr

\* C8 amended: the returned table has one row for exactly the customers of the
\* left-most source of the join (financials, else attributes), each under its own
\* Customer_ID, and the stored partition is that table.
C8_RowsAreCustomersOfLeadingSource ==
    ReturnedTable
        => /\ DOMAIN feature_result.rows = CustomersOf(LeadingSource)
           /\ \A c \in DOMAIN feature_result.rows :
                 feature_result.rows[c]["Customer_ID"] = Some(c)
           /\ gold_feature = feature_result

C8_Witness ==
    /\ ReturnedTable
    /\ CustomersOf(silver_attr) \ CustomersOf(silver_fin) # {}
    /\ CustomersOf(silver_fin) \ CustomersOf(silver_attr) # {}
    /\ DOMAIN feature_result.rows = CustomersOf(silver_fin)

\* C9: in every row of the feature output Debt_to_Income_Ratio is null when the
\* customer's Annual_Income is null or not positive, and otherwise is the quotient
\* Outstanding_Debt / Annual_Income (null when Outstanding_Debt is null).
C9_DebtToIncomeRatio ==
    ReturnedTable
        => \A t \in {feature_result, gold_feature} :
             \A c \in DOMAIN t.rows :
                LET income == silver_fin.rows[c]["Annual_Income"]
                    debt   == silver_fin.rows[c]["Outstanding_Debt"]
                    ratio  == t.rows[c]["Debt_to_Income_Ratio"]
                IN  IF IsNull(income) \/ Val(income) <= 0 THEN IsNull(ratio)
                    ELSE IF IsNull(debt) THEN IsNull(ratio)
                    ELSE /\ ~IsNull(ratio)
                         /\ Val(ratio)[2] > 0
                         /\ Val(ratio)[1] * Val(income) = Val(debt) * Val(ratio)[2]

C9_Witness ==
    /\ ReturnedTable
    /\ \E c, e \in DOMAIN feature_result.rows :
          /\ ~IsNull(silver_fin.rows[c]["Annual_Income"])
          /\ Val(silver_fin.rows[c]["Annual_Income"]) <= 0
          /\ IsNull(feature_result.rows[c]["Debt_to_Income_Ratio"])
          /\ feature_result.rows[e]["Debt_to_Income_Ratio"] = Some(<<3, 2>>)

\* C10: at every point the gold feature partition holds what it held when the call
\* began, or, once a call has returned a table, that table.
C10_PartitionIsOldOrReturnedTable ==
    /\ pc # "idle" => gold_feature = gold_feature_at_call
    /\ FeaturesEnded =>
          \/ gold_feature = gold_feature_at_call
          \/ feature_result.kind = "table" /\ gold_feature = feature_result

====
